---- MODULE Spec2Model ----
(***************************************************************************)
(* Model of src/main.py: a Tkinter front end whose "Generate Blog" button  *)
(* starts a worker thread that builds three blog result sets (title, body, *)
(* cover image, annotation) through retrying provider calls and saves them *)
(* to a Word document.                                                     *)
(*                                                                         *)
(* Threads: 0 is the interactive (Tk main loop) thread, 1..MaxRuns are the *)
(* worker threads in the order start_generation creates them.  A thread's  *)
(* record holds its position (pc) and the local variables of the frames it *)
(* is in.  Strings are sequences of one-character strings; the provider's  *)
(* answers, the fetch outcome and the document writer's outcome are drawn  *)
(* from small sets.  The clock counts ticks, finer than the whole         *)
(* time-units int(time.time()) keeps; it starts within a time-unit and     *)
(* advances only in time.sleep, by exactly the requested amount: the least *)
(* time the code guarantees between two steps.                             *)
(***************************************************************************)
EXTENDS Integers, Sequences, FiniteSets, TLC

\* ---- bounds of the model
MaxRuns == 2            \* worker threads one behaviour may start
MaxFaults == 2          \* provider / fetch / disk failures one behaviour injects

\* ---- program constants
NSets == 3              \* for i in range(1, 4)
Backoff == 10           \* time.sleep(10) in both retry loops
Pause == 2              \* time.sleep(2) after each set

\* Clock ticks per time-unit: time.time() is a float, of which the file name
\* keeps the whole part.
TicksPerUnit == 2

Main == 0
Workers == 1..MaxRuns
Threads == {Main} \cup Workers

\* What one behaviour may spend: either several runs without failures, or
\* one run with up to MaxFaults injected failures.
Budgets == {[runs |-> MaxRuns, faults |-> 0], [runs |-> 1, faults |-> MaxFaults]}

Empty == << >>
Whitespace == {" ", "\n"}

\* Contents the user may type into topic_entry.
Topics == {Empty, <<" ", "\n">>, <<" ", "t", " ">>}

VARIABLES
    topic_entry,        \* text of the tk.Entry
    generate_button,    \* state of the tk.Button: "normal" | "disabled"
    log_text,           \* the ScrolledText: sequence of inserted messages
    seen,               \* number of messages scrolled into view by see(END)
    th,                 \* th[t]: pc and locals of thread t
    hist,               \* hist[t]: history of thread t (observation only)
    now,                \* time.time(), in ticks
    files,              \* names of the temp image files on disk
    doc,                \* generated_blog.docx: whether it exists, its sections
    runsLeft,           \* runs the behaviour may still start
    faultsLeft          \* failures the behaviour may still inject

vars == <<topic_entry, generate_button, log_text, seen, th, hist, now, files,
          doc, runsLeft, faultsLeft>>

\* ---- str.strip()
RECURSIVE LStrip(_)
LStrip(s) == IF s # Empty /\ Head(s) \in Whitespace THEN LStrip(Tail(s)) ELSE s

RECURSIVE RStrip(_)
RStrip(s) ==
    IF s # Empty /\ s[Len(s)] \in Whitespace
    THEN RStrip(SubSeq(s, 1, Len(s) - 1))
    ELSE s

Strip(s) == RStrip(LStrip(s))

\* ---- the provider: raw message contents it may answer to each prompt.
\* A title may come out empty once stripped, and titles of different sets
\* may differ or coincide.
TextResponses(op, set_no) ==
    CASE op = "title" ->
           IF set_no = 1 THEN {<<" ">>, <<" ", "a", "\n">>} ELSE {<<" ", "a", "\n">>}
      [] op = "content" -> {<<"b", "\n">>}
      [] op = "annotation" -> {<<" ", "n">>}

ImageUrls == {<<"u">>}

ProviderErrors == {"RateLimitError", "Exception"}

\* ---- prompts (the f-strings, kept as the values they embed)
generate_blog_title(topic, set_no) ==
    [op |-> "title", topic |-> topic, title |-> Empty, set_no |-> set_no,
     max_tokens |-> 50]

generate_blog_content(topic, set_no) ==
    [op |-> "content", topic |-> topic, title |-> Empty, set_no |-> set_no,
     max_tokens |-> 1500]

generate_annotation(topic, title, set_no) ==
    [op |-> "annotation", topic |-> topic, title |-> title, set_no |-> set_no,
     max_tokens |-> 50]

ImagePrompt(title, set_no) ==
    [op |-> "image", topic |-> Empty, title |-> title, set_no |-> set_no,
     max_tokens |-> 0]

NoPrompt ==
    [op |-> "none", topic |-> Empty, title |-> Empty, set_no |-> 0,
     max_tokens |-> 0]

\* ---- thread records
NoThread ==
    [pc |-> "none", at |-> "none", cont |-> "none", msg |-> Empty,
     topic |-> Empty, i |-> 0, title |-> Empty, content |-> Empty,
     image_url |-> Empty, cover_image_path |-> Empty, annotation |-> Empty,
     results |-> << >>, prompt |-> NoPrompt, ret |-> Empty]

NoCall == [op |-> "none", attempts |-> 0, fails |-> 0, logStart |-> 0, retryLogs |-> 0,
           returned |-> FALSE, resp |-> Empty, result |-> Empty]

NoHist ==
    [nlog |-> 0, built |-> << >>, trace |-> << >>, reqs |-> {}, call |-> NoCall,
     fetches |-> 0, status |-> 0, dlLogStart |-> 0, dlFailed |-> {},
     persisted |-> {}, firstCall |-> << >>, appendedAt |-> << >>,
     saves |-> 0, handed |-> << >>, notices |-> 0, cause |-> "none"]

\* Entering append_log(message) from a frame that continues at k.
EnterLog(r, message, k) == [r EXCEPT !.pc = "append_log", !.msg = message, !.cont = k]

\* The UI is built and idle; the clock reads a time short of a whole
\* time-unit, as time.time() does but for one instant in each unit.
Init ==
    /\ topic_entry \in Topics
    /\ generate_button = "normal"
    /\ log_text = << >>
    /\ seen = 0
    /\ th = [t \in Threads |-> IF t = Main THEN [NoThread EXCEPT !.pc = "idle"] ELSE NoThread]
    /\ hist = [t \in Threads |-> NoHist]
    /\ now = TicksPerUnit - 1
    /\ files = {}
    /\ doc = [exists |-> FALSE, sections |-> << >>]
    /\ \E b \in Budgets : runsLeft = b.runs /\ faultsLeft = b.faults

\* ---- append_log: insert, then see
append_log_insert(t) ==
    /\ th[t].pc = "append_log"
    /\ log_text' = Append(log_text, th[t].msg)
    /\ th' = [th EXCEPT ![t].pc = "see"]
    /\ hist' = [hist EXCEPT ![t].nlog = @ + 1]
    /\ UNCHANGED <<topic_entry, generate_button, seen, now, files, doc, runsLeft, faultsLeft>>

append_log_see(t) ==
    /\ th[t].pc = "see"
    /\ seen' = Len(log_text)
    /\ th' = [th EXCEPT ![t].pc = th[t].cont]
    /\ UNCHANGED <<topic_entry, generate_button, log_text, hist, now, files, doc, runsLeft, faultsLeft>>

\* ---- the interactive thread
type_topic ==
    /\ th[Main].pc = "idle"
    /\ generate_button = "normal"
    /\ \E s \in Topics \ {topic_entry} : topic_entry' = s
    /\ UNCHANGED <<generate_button, log_text, seen, th, hist, now, files, doc, runsLeft, faultsLeft>>

\* Mutant of start_generation: the topic is not stripped.
start_generation_nostrip ==
    /\ th[Main].pc = "idle"
    /\ generate_button = "normal"
    /\ LET topic == topic_entry IN
       IF topic = Empty
       THEN /\ th' = [th EXCEPT ![Main].pc = "showerror"]
            /\ UNCHANGED <<generate_button, runsLeft>>
       ELSE /\ runsLeft > 0
            /\ runsLeft' = runsLeft - 1
            /\ generate_button' = "disabled"
            /\ th' = [th EXCEPT ![Main] =
                        EnterLog([@ EXCEPT !.topic = topic],
                                 <<"Starting generation for topic", topic>>,
                                 "thread_start")]
    /\ UNCHANGED <<topic_entry, log_text, seen, hist, now, files, doc, faultsLeft>>

\* Mutant of start_generation: the button is left enabled.
start_generation_enabled ==
    /\ th[Main].pc = "idle"
    /\ generate_button = "normal"
    /\ LET topic == Strip(topic_entry) IN
       IF topic = Empty
       THEN /\ th' = [th EXCEPT ![Main].pc = "showerror"]
            /\ UNCHANGED runsLeft
       ELSE /\ runsLeft > 0
            /\ runsLeft' = runsLeft - 1
            /\ th' = [th EXCEPT ![Main] =
                        EnterLog([@ EXCEPT !.topic = topic],
                                 <<"Starting generation for topic", topic>>,
                                 "thread_start")]
    /\ UNCHANGED <<topic_entry, generate_button, log_text, seen, hist, now, files, doc, faultsLeft>>

\* The button's command: the topic check, then the button is disabled and
\* the start line logged (the thread is started by thread_start).
start_generation ==
    /\ th[Main].pc = "idle"
    /\ generate_button = "normal"
    /\ LET topic == Strip(topic_entry) IN
       IF topic = Empty
       THEN /\ th' = [th EXCEPT ![Main].pc = "showerror"]
            /\ UNCHANGED <<generate_button, runsLeft>>
       ELSE /\ runsLeft > 0
            /\ runsLeft' = runsLeft - 1
            /\ generate_button' = "disabled"
            /\ th' = [th EXCEPT ![Main] =
                        EnterLog([@ EXCEPT !.topic = topic],
                                 <<"Starting generation for topic", topic>>,
                                 "thread_start")]
    /\ UNCHANGED <<topic_entry, log_text, seen, hist, now, files, doc, faultsLeft>>

showerror_dismiss ==
    /\ th[Main].pc = "showerror"
    /\ th' = [th EXCEPT ![Main].pc = "idle"]
    /\ UNCHANGED <<topic_entry, generate_button, log_text, seen, hist, now, files, doc, runsLeft, faultsLeft>>

click_disabled ==
    /\ th[Main].pc = "idle"
    /\ generate_button = "disabled"
    /\ UNCHANGED vars

thread_start ==
    /\ th[Main].pc = "thread_start"
    /\ \E w \in Workers :
         /\ th[w].pc = "none"
         /\ \A v \in Workers : v < w => th[v].pc # "none"
         /\ th' = [th EXCEPT ![Main].pc = "idle",
                             ![w] = [NoThread EXCEPT !.pc = "loop", !.topic = th[Main].topic]]
    /\ UNCHANGED <<topic_entry, generate_button, log_text, seen, hist, now, files, doc, runsLeft, faultsLeft>>

\* ---- the worker thread (start_generation.worker)
\* Mutant of worker_loop: the loop stops one set early (range(1, 3)).
worker_loop_short(w) ==
    /\ th[w].pc = "loop"
    /\ IF th[w].i < NSets - 1
       THEN /\ th' = [th EXCEPT ![w] =
                        EnterLog([@ EXCEPT !.i = @ + 1, !.at = "title"],
                                 <<"Generating Set", th[w].i + 1>>, "stmt")]
            /\ hist' = [hist EXCEPT ![w].trace = << >>, ![w].fetches = 0]
       ELSE /\ th' = [th EXCEPT ![w].pc = "save"]
            /\ UNCHANGED hist
    /\ UNCHANGED <<topic_entry, generate_button, log_text, seen, now, files, doc, runsLeft, faultsLeft>>

\* for i in range(1, 4): the header of the next set, or the end of the loop
worker_loop(w) ==
    /\ th[w].pc = "loop"
    /\ IF th[w].i < NSets
       THEN /\ th' = [th EXCEPT ![w] =
                        EnterLog([@ EXCEPT !.i = @ + 1, !.at = "title"],
                                 <<"Generating Set", th[w].i + 1>>, "stmt")]
            /\ hist' = [hist EXCEPT ![w].trace = << >>, ![w].fetches = 0]
       ELSE /\ th' = [th EXCEPT ![w].pc = "save"]
            /\ UNCHANGED hist
    /\ UNCHANGED <<topic_entry, generate_button, log_text, seen, now, files, doc, runsLeft, faultsLeft>>

\* The prompt of the text call the worker is at.
TextPrompt(r) ==
    CASE r.at = "title" -> generate_blog_title(r.topic, r.i)
      [] r.at = "content" -> generate_blog_content(r.topic, r.i)
      [] r.at = "annotation" -> generate_annotation(r.topic, r.title, r.i)

\* Entering a provider call: the prompt is built once, before the retry loop.
EnterCall(h, at) ==
    [h EXCEPT !.trace = Append(@, <<"begin", at>>),
              !.firstCall = IF at = "title" THEN Append(@, now) ELSE @,
              !.call = [NoCall EXCEPT !.op = at, !.logStart = h.nlog]]

generate_text_enter(w) ==
    /\ th[w].pc = "stmt"
    /\ th[w].at \in {"title", "content", "annotation"}
    /\ th' = [th EXCEPT ![w].pc = "text_try", ![w].prompt = TextPrompt(th[w])]
    /\ hist' = [hist EXCEPT ![w] = EnterCall(@, th[w].at)]
    /\ UNCHANGED <<topic_entry, generate_button, log_text, seen, now, files, doc, runsLeft, faultsLeft>>

\* Mutant of generate_cover_image_enter: the image shows the topic.
generate_cover_image_enter_topic(w) ==
    /\ th[w].pc = "stmt"
    /\ th[w].at = "image"
    /\ th' = [th EXCEPT ![w].pc = "image_try",
                        ![w].prompt = ImagePrompt(th[w].topic, th[w].i)]
    /\ hist' = [hist EXCEPT ![w] = EnterCall(@, th[w].at)]
    /\ UNCHANGED <<topic_entry, generate_button, log_text, seen, now, files, doc, runsLeft, faultsLeft>>

generate_cover_image_enter(w) ==
    /\ th[w].pc = "stmt"
    /\ th[w].at = "image"
    /\ th' = [th EXCEPT ![w].pc = "image_try",
                        ![w].prompt = ImagePrompt(th[w].title, th[w].i)]
    /\ hist' = [hist EXCEPT ![w] = EnterCall(@, th[w].at)]
    /\ UNCHANGED <<topic_entry, generate_button, log_text, seen, now, files, doc, runsLeft, faultsLeft>>

\* The worker's statement after a provider call returned `result`: the
\* assignment and the progress line that follows it.
AfterCall(r, result) ==
    CASE r.at = "title" ->
           EnterLog([r EXCEPT !.title = result, !.at = "content"],
                    <<"Title", r.i, result>>, "stmt")
      [] r.at = "content" ->
           EnterLog([r EXCEPT !.content = result, !.at = "image"],
                    <<"Content generated", r.i>>, "stmt")
      [] r.at = "image" ->
           EnterLog([r EXCEPT !.image_url = result, !.at = "download"],
                    <<"Cover image URL", r.i, result>>, "stmt")
      [] r.at = "annotation" ->
           EnterLog([r EXCEPT !.annotation = result, !.at = "append"],
                    <<"Annotation", r.i, result>>, "append")

\* History of an attempt that succeeded with raw answer resp, returning result.
Succeeded(h, r, resp, result) ==
    [h EXCEPT !.reqs = @ \cup {r.prompt},
              !.trace = Append(@, <<"end", r.at>>),
              !.call = [@ EXCEPT !.attempts = @ + 1, !.returned = TRUE,
                                 !.retryLogs = h.nlog - h.call.logStart,
                                 !.resp = resp, !.result = result]]

\* History of an attempt that raised.
Failed(h, r) ==
    [h EXCEPT !.reqs = @ \cup {r.prompt},
              !.call = [@ EXCEPT !.attempts = @ + 1, !.fails = @ + 1]]

\* generate_text, try branch: the call succeeds and the stripped content returns
generate_text_ok(w) ==
    /\ th[w].pc = "text_try"
    /\ \E resp \in TextResponses(th[w].prompt.op, th[w].prompt.set_no) :
         LET result == Strip(resp) IN
         /\ th' = [th EXCEPT ![w] = AfterCall(@, result)]
         /\ hist' = [hist EXCEPT ![w] = Succeeded(@, th[w], resp, result)]
    /\ UNCHANGED <<topic_entry, generate_button, log_text, seen, now, files, doc, runsLeft, faultsLeft>>

\* Mutant of generate_text_except: the failure is not logged.
generate_text_except_silent(w) ==
    /\ th[w].pc = "text_try"
    /\ faultsLeft > 0
    /\ faultsLeft' = faultsLeft - 1
    /\ th' = [th EXCEPT ![w].pc = "text_sleep"]
    /\ hist' = [hist EXCEPT ![w] = Failed(@, th[w])]
    /\ UNCHANGED <<topic_entry, generate_button, log_text, seen, now, files, doc, runsLeft>>

\* generate_text, except branches: log, then sleep
generate_text_except(w) ==
    /\ th[w].pc = "text_try"
    /\ faultsLeft > 0
    /\ faultsLeft' = faultsLeft - 1
    /\ \E e \in ProviderErrors :
         th' = [th EXCEPT ![w] =
                  EnterLog(@, <<"Text generation retry in 10 seconds", e>>, "text_sleep")]
    /\ hist' = [hist EXCEPT ![w] = Failed(@, th[w])]
    /\ UNCHANGED <<topic_entry, generate_button, log_text, seen, now, files, doc, runsLeft>>

\* Mutant of generate_text_sleep: the wait grows with the number of failures.
generate_text_sleep_growing(w) ==
    /\ th[w].pc = "text_sleep"
    /\ now' = now + Backoff * TicksPerUnit * hist[w].call.fails
    /\ th' = [th EXCEPT ![w].pc = "text_try"]
    /\ UNCHANGED <<topic_entry, generate_button, log_text, seen, hist, files, doc, runsLeft, faultsLeft>>

\* generate_text: time.sleep(10), then the next iteration of while True
generate_text_sleep(w) ==
    /\ th[w].pc = "text_sleep"
    /\ now' = now + Backoff * TicksPerUnit
    /\ th' = [th EXCEPT ![w].pc = "text_try"]
    /\ UNCHANGED <<topic_entry, generate_button, log_text, seen, hist, files, doc, runsLeft, faultsLeft>>

\* generate_cover_image_for_title, try branch
generate_cover_image_ok(w) ==
    /\ th[w].pc = "image_try"
    /\ \E url \in ImageUrls :
         /\ th' = [th EXCEPT ![w] = AfterCall(@, url)]
         /\ hist' = [hist EXCEPT ![w] = Succeeded(@, th[w], url, url)]
    /\ UNCHANGED <<topic_entry, generate_button, log_text, seen, now, files, doc, runsLeft, faultsLeft>>

\* Mutant of generate_cover_image_except: the error is raised to the caller.
generate_cover_image_except_raise(w) ==
    /\ th[w].pc = "image_try"
    /\ faultsLeft > 0
    /\ faultsLeft' = faultsLeft - 1
    /\ th' = [th EXCEPT ![w].pc = "dead"]
    /\ hist' = [hist EXCEPT ![w] = [Failed(@, th[w]) EXCEPT !.cause = "provider"]]
    /\ UNCHANGED <<topic_entry, generate_button, log_text, seen, now, files, doc, runsLeft>>

\* generate_cover_image_for_title, except branches
generate_cover_image_except(w) ==
    /\ th[w].pc = "image_try"
    /\ faultsLeft > 0
    /\ faultsLeft' = faultsLeft - 1
    /\ \E e \in ProviderErrors :
         th' = [th EXCEPT ![w] =
                  EnterLog(@, <<"Image generation retry in 10 seconds", e>>, "image_sleep")]
    /\ hist' = [hist EXCEPT ![w] = Failed(@, th[w])]
    /\ UNCHANGED <<topic_entry, generate_button, log_text, seen, now, files, doc, runsLeft>>

generate_cover_image_sleep(w) ==
    /\ th[w].pc = "image_sleep"
    /\ now' = now + Backoff * TicksPerUnit
    /\ th' = [th EXCEPT ![w].pc = "image_try"]
    /\ UNCHANGED <<topic_entry, generate_button, log_text, seen, hist, files, doc, runsLeft, faultsLeft>>

\* ---- download_image
\* f"temp_cover_image_set_{int(time.time())}.jpg"
TempFilename(t) == <<"temp_cover_image_set_", t \div TicksPerUnit, ".jpg">>

\* History of a fetch that ended with `status` (-1: requests.get raised).
Fetched(h, status) ==
    [h EXCEPT !.trace = IF h.fetches = 0 THEN Append(@, <<"begin", "download">>) ELSE @,
              !.fetches = @ + 1,
              !.status = status,
              !.dlLogStart = IF h.fetches = 0 THEN h.nlog ELSE @]

\* Mutant of download_image_get: a failed fetch is logged and tried again.
download_image_get_retry(w) ==
    /\ th[w].pc = "stmt"
    /\ th[w].at = "download"
    /\ \/ /\ th' = [th EXCEPT ![w].pc = "dl_write"]
          /\ hist' = [hist EXCEPT ![w] = Fetched(@, 200)]
          /\ UNCHANGED faultsLeft
       \/ /\ faultsLeft > 0
          /\ faultsLeft' = faultsLeft - 1
          /\ th' = [th EXCEPT ![w] =
                      EnterLog([@ EXCEPT !.ret = Empty],
                               <<"Failed to download image, status code", 404>>,
                               "stmt")]
          /\ hist' = [hist EXCEPT ![w] = Fetched(@, 404)]
    /\ UNCHANGED <<topic_entry, generate_button, log_text, seen, now, files, doc, runsLeft>>

\* requests.get: status 200, another status, or an exception
download_image_get(w) ==
    /\ th[w].pc = "stmt"
    /\ th[w].at = "download"
    /\ \/ /\ th' = [th EXCEPT ![w].pc = "dl_write"]
          /\ hist' = [hist EXCEPT ![w] = Fetched(@, 200)]
          /\ UNCHANGED faultsLeft
       \/ /\ faultsLeft > 0
          /\ faultsLeft' = faultsLeft - 1
          /\ th' = [th EXCEPT ![w] =
                      EnterLog([@ EXCEPT !.ret = Empty],
                               <<"Failed to download image, status code", 404>>,
                               "dl_return")]
          /\ hist' = [hist EXCEPT ![w] = Fetched(@, 404)]
       \/ /\ faultsLeft > 0
          /\ faultsLeft' = faultsLeft - 1
          /\ th' = [th EXCEPT ![w] =
                      EnterLog([@ EXCEPT !.ret = Empty],
                               <<"Error downloading image", "ConnectionError">>,
                               "dl_return")]
          /\ hist' = [hist EXCEPT ![w] = Fetched(@, -1)]
    /\ UNCHANGED <<topic_entry, generate_button, log_text, seen, now, files, doc, runsLeft>>

\* Mutant of download_image_write: the written file's name is not returned.
download_image_write_lost(w) ==
    /\ th[w].pc = "dl_write"
    /\ files' = files \cup {TempFilename(now)}
    /\ th' = [th EXCEPT ![w].pc = "dl_return", ![w].ret = Empty]
    /\ hist' = [hist EXCEPT ![w].persisted = @ \cup {th[w].i}]
    /\ UNCHANGED <<topic_entry, generate_button, log_text, seen, now, doc, runsLeft, faultsLeft>>

\* status 200: the file is written and its name returned, or open/write raises
download_image_write(w) ==
    /\ th[w].pc = "dl_write"
    /\ \/ /\ files' = files \cup {TempFilename(now)}
          /\ th' = [th EXCEPT ![w].pc = "dl_return", ![w].ret = TempFilename(now)]
          /\ hist' = [hist EXCEPT ![w].persisted = @ \cup {th[w].i}]
          /\ UNCHANGED faultsLeft
       \/ /\ faultsLeft > 0
          /\ faultsLeft' = faultsLeft - 1
          /\ th' = [th EXCEPT ![w] =
                      EnterLog([@ EXCEPT !.ret = Empty],
                               <<"Error downloading image", "OSError">>, "dl_return")]
          /\ UNCHANGED <<files, hist>>
    /\ UNCHANGED <<topic_entry, generate_button, log_text, seen, now, doc, runsLeft>>

\* Mutant of worker_downloaded: a set whose download failed gets no annotation.
worker_downloaded_skip(w) ==
    /\ th[w].pc = "dl_return"
    /\ th' = [th EXCEPT ![w] =
                IF th[w].ret # Empty
                THEN EnterLog([@ EXCEPT !.cover_image_path = th[w].ret, !.at = "annotation"],
                              <<"Cover image downloaded", th[w].i, th[w].ret>>, "stmt")
                ELSE EnterLog([@ EXCEPT !.cover_image_path = th[w].ret, !.at = "append"],
                              <<"Cover image download failed", th[w].i>>, "append")]
    /\ hist' = [hist EXCEPT ![w].trace = Append(@, <<"end", "download">>),
                            ![w].dlFailed = IF th[w].ret = Empty
                                            THEN @ \cup {th[w].i} ELSE @]
    /\ UNCHANGED <<topic_entry, generate_button, log_text, seen, now, files, doc, runsLeft, faultsLeft>>

\* Mutant of worker_downloaded: a failed download ends the worker.
worker_downloaded_abort(w) ==
    /\ th[w].pc = "dl_return"
    /\ th' = [th EXCEPT ![w] =
                IF th[w].ret # Empty
                THEN EnterLog([@ EXCEPT !.cover_image_path = th[w].ret, !.at = "annotation"],
                              <<"Cover image downloaded", th[w].i, th[w].ret>>, "stmt")
                ELSE [@ EXCEPT !.pc = "dead"]]
    /\ hist' = [hist EXCEPT ![w].trace = Append(@, <<"end", "download">>),
                            ![w].dlFailed = IF th[w].ret = Empty
                                            THEN @ \cup {th[w].i} ELSE @,
                            ![w].cause = IF th[w].ret = Empty THEN "download" ELSE @]
    /\ UNCHANGED <<topic_entry, generate_button, log_text, seen, now, files, doc, runsLeft, faultsLeft>>

\* worker: cover_image_path = download_image(image_url) and the line it logs
worker_downloaded(w) ==
    /\ th[w].pc = "dl_return"
    /\ th' = [th EXCEPT ![w] =
                EnterLog([@ EXCEPT !.cover_image_path = th[w].ret, !.at = "annotation"],
                         IF th[w].ret # Empty
                         THEN <<"Cover image downloaded", th[w].i, th[w].ret>>
                         ELSE <<"Cover image download failed", th[w].i>>,
                         "stmt")]
    /\ hist' = [hist EXCEPT ![w].trace = Append(@, <<"end", "download">>),
                            ![w].dlFailed = IF th[w].ret = Empty
                                            THEN @ \cup {th[w].i} ELSE @]
    /\ UNCHANGED <<topic_entry, generate_button, log_text, seen, now, files, doc, runsLeft, faultsLeft>>

\* save_blog_to_word_multiple: the document built from the batch, one section
\* per set, in batch order.
Document(sets) ==
    [k \in 1..Len(sets) |->
        [heading |-> <<"Set", k, sets[k].title, sets[k].annotation>>,
         paragraph |-> sets[k].content,
         picture |-> IF sets[k].cover_image_path # Empty
                        /\ sets[k].cover_image_path \in files
                     THEN sets[k].cover_image_path
                     ELSE Empty]]

\* Mutant of worker_append: the document is written after every set.
worker_append_saving(w) ==
    /\ th[w].pc = "append"
    /\ th' = [th EXCEPT ![w].pc = "pause",
                        ![w].results =
                            Append(@, [title |-> th[w].title,
                                       content |-> th[w].content,
                                       cover_image_path |-> th[w].cover_image_path,
                                       annotation |-> th[w].annotation])]
    /\ doc' = [exists |-> TRUE,
               sections |-> Document(Append(th[w].results,
                                            [title |-> th[w].title,
                                             content |-> th[w].content,
                                             cover_image_path |-> th[w].cover_image_path,
                                             annotation |-> th[w].annotation]))]
    /\ hist' = [hist EXCEPT ![w].built = Append(@, th[w].i),
                            ![w].appendedAt = Append(@, now)]
    /\ UNCHANGED <<topic_entry, generate_button, log_text, seen, now, files, runsLeft, faultsLeft>>

\* worker: results.append({...})
worker_append(w) ==
    /\ th[w].pc = "append"
    /\ th' = [th EXCEPT ![w].pc = "pause",
                        ![w].results =
                            Append(@, [title |-> th[w].title,
                                       content |-> th[w].content,
                                       cover_image_path |-> th[w].cover_image_path,
                                       annotation |-> th[w].annotation])]
    /\ hist' = [hist EXCEPT ![w].built = Append(@, th[w].i),
                            ![w].appendedAt = Append(@, now)]
    /\ UNCHANGED <<topic_entry, generate_button, log_text, seen, now, files, doc, runsLeft, faultsLeft>>

\* Mutant of worker_pause: no pause between two sets.
worker_pause_none(w) ==
    /\ th[w].pc = "pause"
    /\ th' = [th EXCEPT ![w].pc = "loop"]
    /\ UNCHANGED <<topic_entry, generate_button, log_text, seen, hist, now, files, doc, runsLeft, faultsLeft>>

\* Mutant of worker_pause: the pause is shorter than a time-unit.
worker_pause_short(w) ==
    /\ th[w].pc = "pause"
    /\ now' = now + 1
    /\ th' = [th EXCEPT ![w].pc = "loop"]
    /\ UNCHANGED <<topic_entry, generate_button, log_text, seen, hist, files, doc, runsLeft, faultsLeft>>

\* worker: time.sleep(2)
worker_pause(w) ==
    /\ th[w].pc = "pause"
    /\ now' = now + Pause * TicksPerUnit
    /\ th' = [th EXCEPT ![w].pc = "loop"]
    /\ UNCHANGED <<topic_entry, generate_button, log_text, seen, hist, files, doc, runsLeft, faultsLeft>>

\* ---- save_blog_to_word_multiple
\* Mutant of save_blog_to_word_multiple: a write failure is swallowed.
save_blog_to_word_multiple_swallow(w) ==
    /\ th[w].pc = "save"
    /\ \/ /\ doc' = [exists |-> TRUE, sections |-> Document(th[w].results)]
          /\ th' = [th EXCEPT ![w] =
                      EnterLog(@, <<"Blog results have been saved to", "generated_blog.docx">>,
                               "saved")]
          /\ hist' = [hist EXCEPT ![w].saves = @ + 1, ![w].handed = th[w].results]
          /\ UNCHANGED faultsLeft
       \/ /\ faultsLeft > 0
          /\ faultsLeft' = faultsLeft - 1
          /\ th' = [th EXCEPT ![w].pc = "saved"]
          /\ hist' = [hist EXCEPT ![w].saves = @ + 1, ![w].handed = th[w].results,
                                  ![w].cause = "save"]
          /\ UNCHANGED doc
    /\ UNCHANGED <<topic_entry, generate_button, log_text, seen, now, files, runsLeft>>

\* The document is built and saved, or python-docx / the file system raises
\* and the exception leaves the worker function: the thread ends.
save_blog_to_word_multiple(w) ==
    /\ th[w].pc = "save"
    /\ \/ /\ doc' = [exists |-> TRUE, sections |-> Document(th[w].results)]
          /\ th' = [th EXCEPT ![w] =
                      EnterLog(@, <<"Blog results have been saved to", "generated_blog.docx">>,
                               "saved")]
          /\ hist' = [hist EXCEPT ![w].saves = @ + 1, ![w].handed = th[w].results]
          /\ UNCHANGED faultsLeft
       \/ /\ faultsLeft > 0
          /\ faultsLeft' = faultsLeft - 1
          /\ th' = [th EXCEPT ![w].pc = "dead"]
          /\ hist' = [hist EXCEPT ![w].saves = @ + 1, ![w].handed = th[w].results,
                                  ![w].cause = "save"]
          /\ UNCHANGED doc
    /\ UNCHANGED <<topic_entry, generate_button, log_text, seen, now, files, runsLeft>>

\* Mutant of worker_saved: the button is enabled before the last log line.
worker_saved_enables(w) ==
    /\ th[w].pc = "saved"
    /\ generate_button' = "normal"
    /\ th' = [th EXCEPT ![w] =
                EnterLog(@, <<"All blog results generated and saved.">>, "showinfo")]
    /\ UNCHANGED <<topic_entry, log_text, seen, hist, now, files, doc, runsLeft, faultsLeft>>

\* worker: append_log("All blog results generated and saved.")
worker_saved(w) ==
    /\ th[w].pc = "saved"
    /\ th' = [th EXCEPT ![w] =
                EnterLog(@, <<"All blog results generated and saved.">>, "showinfo")]
    /\ UNCHANGED <<topic_entry, generate_button, log_text, seen, hist, now, files, doc, runsLeft, faultsLeft>>

\* Mutant of worker_finish: the thread ends without the success dialog.
worker_finish_silent(w) ==
    /\ th[w].pc = "showinfo"
    /\ generate_button' = "normal"
    /\ th' = [th EXCEPT ![w].pc = "done"]
    /\ UNCHANGED <<topic_entry, log_text, seen, hist, now, files, doc, runsLeft, faultsLeft>>

\* worker: the success dialog is dismissed, the button is enabled again and
\* the thread ends
worker_finish(w) ==
    /\ th[w].pc = "showinfo"
    /\ generate_button' = "normal"
    /\ th' = [th EXCEPT ![w].pc = "done"]
    /\ hist' = [hist EXCEPT ![w].notices = @ + 1]
    /\ UNCHANGED <<topic_entry, log_text, seen, now, files, doc, runsLeft, faultsLeft>>

WorkerStep(w) ==
    \/ worker_loop(w)
    \/ generate_text_enter(w)
    \/ generate_text_ok(w)
    \/ generate_text_except(w)
    \/ generate_text_sleep(w)
    \/ generate_cover_image_enter(w)
    \/ generate_cover_image_ok(w)
    \/ generate_cover_image_except(w)
    \/ generate_cover_image_sleep(w)
    \/ download_image_get(w)
    \/ download_image_write(w)
    \/ worker_downloaded(w)
    \/ worker_append(w)
    \/ worker_pause(w)
    \/ save_blog_to_word_multiple(w)
    \/ worker_saved(w)
    \/ worker_finish(w)

Next ==
    \/ type_topic
    \/ start_generation
    \/ showerror_dismiss
    \/ click_disabled
    \/ thread_start
    \/ \E t \in Threads : append_log_insert(t)
    \/ \E t \in Threads : append_log_see(t)
    \/ \E w \in Workers : WorkerStep(w)

Spec == Init /\ [][Next]_vars

\* The scheduler lets every thread that can take a step take one, and a
\* provider call that is attempted again and again eventually succeeds.
Fairness ==
    \A w \in Workers :
        /\ WF_vars(WorkerStep(w) \/ append_log_insert(w) \/ append_log_see(w))
        /\ SF_vars(generate_text_ok(w))
        /\ SF_vars(generate_cover_image_ok(w))

FairSpec == Spec /\ Fairness

\* ---- properties

Active(w) == th[w].pc \notin {"none", "done", "dead"}

\* The worker has left the loop over the sets.
LoopOver(w) == th[w].pc = "save" \/ hist[w].saves > 0

IsPrefix(s, t) == Len(s) <= Len(t) /\ s = SubSeq(t, 1, Len(s))

\* C1: the batch grows only by appending the record of the next set index:
\* at every moment it holds the records of sets 1..k in that order, and once
\* the loop is over (and in the saved document) it holds exactly NSets
\* records; no step reorders, drops or replaces a record.
C1_BatchState ==
    \A w \in Workers :
        /\ Len(hist[w].built) = Len(th[w].results)
        /\ \A k \in 1..Len(hist[w].built) : hist[w].built[k] = k
        /\ Len(th[w].results) <= NSets
        /\ LoopOver(w) => Len(th[w].results) = NSets
        /\ hist[w].saves > 0 =>
              /\ hist[w].handed = th[w].results
              /\ th[w].pc # "dead" =>
                    /\ doc.exists
                    /\ Len(doc.sections) = NSets
                    /\ \A k \in 1..NSets : doc.sections[k].heading[2] = k

C1_BatchStep ==
    \A w \in Workers :
        \/ th'[w].results = th[w].results
        \/ /\ Len(th'[w].results) = Len(th[w].results) + 1
           /\ SubSeq(th'[w].results, 1, Len(th[w].results)) = th[w].results
           /\ th'[w].i = Len(th'[w].results)

C1_BatchInOrder == [](C1_BatchState) /\ [][C1_BatchStep]_vars

\* A run completed although a download failed and the titles differ.
C1_Witness ==
    \E w \in Workers :
        /\ th[w].pc = "done"
        /\ hist[w].dlFailed # {}
        /\ th[w].results[1].title # th[w].results[2].title

\* The worker's variable that receives the result of the call `op`.
Assigned(r, op) ==
    CASE op = "title" -> r.title
      [] op = "content" -> r.content
      [] op = "image" -> r.image_url
      [] op = "annotation" -> r.annotation

\* C2: a provider call that failed K times and then succeeded made K + 1
\* attempts, logged K retry lines, and handed the worker the (stripped)
\* answer of the successful attempt.
C2_RetryCounts ==
    \A w \in Workers :
        LET c == hist[w].call IN
        c.returned =>
            /\ c.attempts = c.fails + 1
            /\ c.retryLogs = c.fails
            /\ c.result = IF c.op = "image" THEN c.resp ELSE Strip(c.resp)
            /\ Assigned(th[w], c.op) = c.result

\* A text call returned after two failures.
C2_Witness ==
    \E w \in Workers :
        /\ hist[w].call.returned
        /\ hist[w].call.op = "title"
        /\ hist[w].call.fails >= 2

TryPcs == {"text_try", "image_try"}
SleepPcs == {"text_sleep", "image_sleep"}
SleepOf(p) == IF p = "text_try" THEN "text_sleep" ELSE "image_sleep"
TryOf(p) == IF p = "text_sleep" THEN "text_try" ELSE "image_try"

\* C3: a failed attempt is logged, then the thread sleeps exactly Backoff and
\* attempts again; a retry loop is left only by a successful attempt, and no
\* worker ends because of a provider error.
C3_RetryStep ==
    \A w \in Workers :
        LET p == th[w].pc
            q == th'[w].pc
        IN  /\ (p \in SleepPcs /\ q # p) => (q = TryOf(p) /\ now' = now + Backoff * TicksPerUnit)
            /\ (p \in TryPcs /\ hist'[w].call.fails # hist[w].call.fails) =>
                   /\ hist'[w].call.fails = hist[w].call.fails + 1
                   /\ q = "append_log"
                   /\ th'[w].cont = SleepOf(p)
            /\ (p \in TryPcs /\ q # p /\ hist'[w].call.fails = hist[w].call.fails) =>
                   hist'[w].call.returned
            /\ (p = "see" /\ th[w].cont \in SleepPcs /\ q # p) => q = th[w].cont

C3_NeverSurfaced ==
    /\ [](\A w \in Workers : th[w].pc = "dead" => hist[w].cause = "save")
    /\ [][C3_RetryStep]_vars

\* A text call is at its third attempt after two backoffs.
C3_Witness ==
    \E w \in Workers :
        /\ th[w].pc = "text_try"
        /\ hist[w].call.fails = 2
        /\ now >= 2 * Backoff * TicksPerUnit

\* C4: a click with an empty or whitespace-only topic only shows the error
\* dialog: no thread, log line, file, document or provider request results,
\* and the button stays enabled; every started worker has a non-empty topic.
C4_Rest == <<generate_button, log_text, seen, hist, now, files, doc, runsLeft, faultsLeft>>

C4_EmptyClick ==
    /\ (th[Main].pc = "idle" /\ th'[Main].pc # "idle" /\ Strip(topic_entry) = Empty) =>
          /\ th'[Main].pc = "showerror"
          /\ generate_button' = "normal"
          /\ \A w \in Workers : th'[w] = th[w]
          /\ UNCHANGED C4_Rest
    /\ th[Main].pc = "showerror" =>
          /\ th'[Main].pc \in {"showerror", "idle"}
          /\ \A w \in Workers : th'[w] = th[w]
          /\ UNCHANGED C4_Rest

C4_EmptyTopic ==
    /\ [](\A w \in Workers : th[w].pc # "none" => th[w].topic # Empty)
    /\ [](th[Main].pc = "showerror" => \A w \in Workers : ~Active(w))
    /\ [][C4_EmptyClick]_vars

\* The error dialog is up for a whitespace-only topic.
C4_Witness == th[Main].pc = "showerror" /\ topic_entry = <<" ", "\n">>

\* The steps of one set, each beginning after the one before it has ended.
SetSteps ==
    <<<<"begin", "title">>, <<"end", "title">>,
      <<"begin", "content">>, <<"end", "content">>,
      <<"begin", "image">>, <<"end", "image">>,
      <<"begin", "download">>, <<"end", "download">>,
      <<"begin", "annotation">>, <<"end", "annotation">>>>

\* C5: the steps a set has begun and ended so far are always an initial part
\* of title, body, image, download, annotation, and the record is appended
\* only when all five have ended.
C5_StepOrder ==
    \A w \in Workers :
        /\ IsPrefix(hist[w].trace, SetSteps)
        /\ th[w].pc \in {"append", "pause"} => hist[w].trace = SetSteps

\* A set with an empty title and a failed download is about to be appended.
C5_Witness ==
    \E w \in Workers :
        /\ th[w].pc = "append"
        /\ th[w].title = Empty
        /\ th[w].cover_image_path = Empty

\* C6: every image request and every annotation request of a set carries the
\* title that set generated, which is the title of the set's record; every
\* record has had both requests made for it.
C6_TitleThreaded ==
    \A w \in Workers :
        /\ \A p \in hist[w].reqs :
              p.op \in {"image", "annotation"} =>
                 /\ p.set_no = th[w].i => p.title = th[w].title
                 /\ p.set_no <= Len(th[w].results) =>
                       p.title = th[w].results[p.set_no].title
        /\ \A k \in 1..Len(th[w].results) :
              \A op \in {"image", "annotation"} :
                 \E p \in hist[w].reqs : p.op = op /\ p.set_no = k

\* The image call of set 2 is retrying, and set 2's title is not set 1's.
C6_Witness ==
    \E w \in Workers :
        /\ th[w].pc = "image_try"
        /\ th[w].i = 2
        /\ hist[w].call.fails >= 1
        /\ th[w].title # th[w].results[1].title

DownloadFailureLines == {"Failed to download image, status code", "Error downloading image"}

\* C7: download_image fetches the URL once; when it fails it returns the
\* empty path and has logged exactly one line, a failure line; when it
\* succeeds it has logged nothing.
C7_SingleAttempt ==
    \A w \in Workers :
        /\ hist[w].fetches <= 1
        /\ th[w].pc = "dl_return" =>
              /\ hist[w].fetches = 1
              /\ hist[w].status # 200 => th[w].ret = Empty
              /\ th[w].ret = Empty =>
                    /\ hist[w].nlog - hist[w].dlLogStart = 1
                    /\ log_text[Len(log_text)][1] \in DownloadFailureLines
              /\ th[w].ret # Empty => hist[w].nlog = hist[w].dlLogStart

\* download_image returns after a fetch answered with status 404.
C7_Witness ==
    \E w \in Workers : th[w].pc = "dl_return" /\ hist[w].status = 404

\* C8: a worker ends early for no other reason than the document writer's
\* failure; a set whose download failed still has its annotation requested
\* and its record appended with an empty cover_image_path, the loop still
\* runs all NSets sets, and the whole batch is handed to the document writer.
C8_DownloadFailureContinues ==
    \A w \in Workers :
        /\ th[w].pc = "dead" => hist[w].cause = "save"
        /\ th[w].pc \in {"done", "dead"} =>
              /\ Len(hist[w].handed) = NSets
              /\ hist[w].handed = th[w].results
        /\ \A k \in hist[w].dlFailed :
              k <= Len(th[w].results) =>
                 /\ th[w].results[k].cover_image_path = Empty
                 /\ \E p \in hist[w].reqs : p.op = "annotation" /\ p.set_no = k
        /\ \A k \in 1..Len(th[w].results) :
              th[w].results[k].cover_image_path = Empty => k \in hist[w].dlFailed

\* A run completed whose first download failed.
C8_Witness ==
    \E w \in Workers :
        /\ th[w].pc = "done"
        /\ 1 \in hist[w].dlFailed
        /\ doc.exists
        /\ doc.sections[1].picture = Empty
        /\ doc.sections[2].picture # Empty

\* The interactive thread is inside start_generation, past the topic check.
InHandler == th[Main].pc \in {"append_log", "see", "thread_start"}

\* C9: at most one worker is running; while one is running, or the handler
\* is about to start one, the button is disabled and no other is started.
\* (A worker is over once it has executed its last statement, which enables
\* the button.)
C9_OneWorker ==
    /\ Cardinality({w \in Workers : Active(w)}) <= 1
    /\ (InHandler \/ \E w \in Workers : Active(w)) => generate_button = "disabled"
    /\ ~(InHandler /\ \E w \in Workers : Active(w))

\* A second run is under way after the first one finished.
C9_Witness == th[1].pc = "done" /\ th[2].pc = "text_try"

InAppendLog(t) == th[t].pc \in {"append_log", "see"}

\* C10: at most one thread is inside append_log; between a message's insert
\* and its see no other message is inserted or scrolled, and outside
\* append_log every inserted message has been scrolled into view.
C10_SerializedLog ==
    /\ Cardinality({t \in Threads : InAppendLog(t)}) <= 1
    /\ \A t \in Threads :
          th[t].pc = "see" =>
             /\ Len(log_text) > 0
             /\ log_text[Len(log_text)] = th[t].msg
             /\ seen = Len(log_text) - 1
    /\ (\A t \in Threads : th[t].pc # "see") => seen = Len(log_text)

\* The interactive thread is between insert and see after a worker has logged
\* and finished.
C10_Witness ==
    /\ th[Main].pc = "see"
    /\ \E w \in Workers : th[w].pc = "done" /\ hist[w].nlog > 0

\* The worker thread has ended.
Ended(w) == th[w].pc \in {"done", "dead"}

\* C11 as claimed: a started run ends in no other way than with the success
\* notice emitted.
C11_OnlySuccessEnds ==
    \A w \in Workers : Ended(w) => (th[w].pc = "done" /\ hist[w].notices = 1)

\* C11, amended: a started run ends either with the success notice emitted
\* after the document was saved, or by the document writer's failure, which
\* ends the worker without the notice; a run is started only for a
\* non-empty topic.
C11_EndsBySuccessOrSaveFailure ==
    \A w \in Workers :
        /\ th[w].pc # "none" => th[w].topic # Empty
        /\ th[w].pc = "done" =>
              /\ hist[w].notices = 1
              /\ hist[w].saves = 1
              /\ hist[w].cause = "none"
        /\ th[w].pc = "dead" =>
              /\ hist[w].notices = 0
              /\ hist[w].cause = "save"
        /\ hist[w].notices > 0 => th[w].pc = "done"

\* One worker ended with the notice after a failed download, or ended by a
\* write failure.
C11_Witness ==
    \E w \in Workers :
        \/ th[w].pc = "done" /\ hist[w].dlFailed # {} /\ hist[w].notices = 1
        \/ th[w].pc = "dead" /\ hist[w].cause = "save"

\* C12: under the fairness of FairSpec, a provider call that is being
\* attempted returns, a set that has begun yields its record, and a started
\* worker reaches the handoff to save_blog_to_word_multiple.
C12_EventuallySucceeds ==
    \A w \in Workers :
        /\ (th[w].pc \in TryPcs) ~> hist[w].call.returned
        /\ (th[w].i > Len(th[w].results)) ~> (th[w].i = Len(th[w].results))
        /\ (th[w].pc # "none") ~> LoopOver(w)

\* A worker is at the handoff after two backoffs.
C12_Witness ==
    \E w \in Workers :
        /\ th[w].pc = "save"
        /\ now >= (2 * Backoff + NSets * Pause) * TicksPerUnit

SavedLines == {"Blog results have been saved to", "All blog results generated and saved."}

\* C13: the document writer is called at most once per run; when it fails
\* the worker ends there, by the exception: no "saved" line is logged, no
\* success notice is shown and the document is not written.
C13_WriteFailureFatal ==
    \A w \in Workers :
        /\ hist[w].saves <= 1
        /\ hist[w].cause = "save" =>
              /\ th[w].pc = "dead"
              /\ hist[w].saves = 1
              /\ hist[w].notices = 0
              /\ log_text[Len(log_text)] = <<"Annotation", NSets, th[w].annotation>>
              /\ \A j \in 1..Len(log_text) : log_text[j][1] \notin SavedLines
              /\ ~doc.exists

\* A worker ended by a write failure after a provider call had failed.
C13_Witness ==
    \E w \in Workers :
        /\ th[w].pc = "dead"
        /\ hist[w].cause = "save"
        /\ faultsLeft = 0

\* C14: the document is written only by a worker at the handoff whose batch
\* holds NSets records, at most once per run; while a worker's batch is
\* shorter nothing of it is written, and a success notice implies the saved
\* document.
C14_DocState ==
    /\ \A w \in Workers :
          /\ hist[w].saves <= 1
          /\ hist[w].saves > 0 => Len(hist[w].handed) = NSets
          /\ Len(th[w].results) < NSets => (hist[w].saves = 0 /\ hist[w].notices = 0)
          /\ hist[w].notices > 0 =>
                (hist[w].saves = 1 /\ hist[w].cause = "none" /\ doc.exists)
    /\ doc.exists =>
          /\ Len(doc.sections) = NSets
          /\ \E w \in Workers :
                /\ hist[w].saves = 1
                /\ hist[w].cause = "none"
                /\ doc.sections = Document(hist[w].handed)

C14_DocStep ==
    doc' # doc =>
        \E w \in Workers :
            /\ th[w].pc = "save"
            /\ Len(th[w].results) = NSets
            /\ hist'[w].saves = hist[w].saves + 1
            /\ doc' = [exists |-> TRUE, sections |-> Document(th[w].results)]

C14_NoPartialBatch == [](C14_DocState) /\ [][C14_DocStep]_vars

\* A text call of the third set is retrying and no document exists.
C14_Witness ==
    \E w \in Workers :
        /\ th[w].pc = "text_try"
        /\ hist[w].call.fails >= 1
        /\ Len(th[w].results) = 2
        /\ ~doc.exists

\* The thread is inside a provider call or download_image.
InCall(w) ==
    /\ hist[w].trace # << >>
    /\ hist[w].trace[Len(hist[w].trace)][1] = "begin"
    /\ Active(w)

\* C15: at most one thread is inside an external call; the first call of set
\* k + 1 is made only when the record of set k is in the batch and at least
\* Pause time-units after it was appended.
C15_Sequential ==
    /\ Cardinality({w \in Workers : InCall(w)}) <= 1
    /\ \A w \in Workers :
          /\ Len(hist[w].firstCall) <= Len(hist[w].appendedAt) + 1
          /\ Len(hist[w].appendedAt) = Len(th[w].results)
          /\ \A p \in hist[w].reqs : p.set_no <= Len(hist[w].firstCall)
          /\ \A k \in 2..Len(hist[w].firstCall) :
                hist[w].firstCall[k] >= hist[w].appendedAt[k - 1] + Pause * TicksPerUnit

\* The third set's first call has been made in a run with a retry.
C15_Witness ==
    \E w \in Workers :
        /\ Len(hist[w].firstCall) = NSets
        /\ InCall(w)
        /\ now > (NSets - 1) * Pause * TicksPerUnit + TicksPerUnit

\* C16: a record's cover_image_path is non-empty exactly when the set's
\* fetch answered 200 and the file was written, and then names a file on
\* disk; a set whose download failed has its record all the same.
C16_PathIffPersisted ==
    \A w \in Workers :
        /\ hist[w].persisted \cap hist[w].dlFailed = {}
        /\ \A k \in 1..Len(th[w].results) :
              LET path == th[w].results[k].cover_image_path IN
              /\ path # Empty <=> k \in hist[w].persisted
              /\ path = Empty <=> k \in hist[w].dlFailed
              /\ path # Empty => path \in files

\* A run completed whose first file could not be written although the fetch
\* answered 200, and whose second download succeeded.
C16_Witness ==
    \E w \in Workers :
        /\ th[w].pc = "done"
        /\ th[w].results[1].cover_image_path = Empty
        /\ th[w].results[2].cover_image_path # Empty
        /\ \E j \in 1..Len(log_text) : log_text[j] = <<"Error downloading image", "OSError">>

\* C17: within one run the non-empty cover_image_paths are pairwise
\* distinct.
C17_DistinctPaths ==
    \A w \in Workers :
        \A j, k \in 1..Len(th[w].results) :
            (j < k /\ th[w].results[j].cover_image_path # Empty
                   /\ th[w].results[k].cover_image_path # Empty)
            => th[w].results[j].cover_image_path # th[w].results[k].cover_image_path

\* Three files were written in a run whose clock readings are not whole
\* time-units, so that int() drops a fraction from each of them.
C17_Witness ==
    \E w \in Workers :
        /\ Len(th[w].results) = NSets
        /\ \A k \in 1..NSets : th[w].results[k].cover_image_path # Empty
        /\ now % TicksPerUnit # 0

\* C18 as claimed: whenever no worker is running and no run is being
\* started, the button is enabled.
C18_ButtonReenabled ==
    ((\A w \in Workers : ~Active(w)) /\ ~InHandler) => generate_button = "normal"

====
